---- MODULE Spec2Model ----
(***************************************************************************)
(* Model of the serial command parser / dispatcher of                      *)
(* SerialCommandHandler.cpp (class Command).                               *)
(*                                                                         *)
(* A String is a sequence of characters, a character is a one-character   *)
(* string.  The '\0' character is the value NUL; it never occurs inside a *)
(* String.  The Arduino String operations used by the code (trim,          *)
(* substring, indexOf, operator[], equals) are modelled by what they do,   *)
(* including the unsigned arithmetic of their index arguments.             *)
(*                                                                         *)
(* process keeps no state between calls, so a behaviour works on one line, *)
(* chosen in Init: every call of process and every read of Serial gets it, *)
(* under whatever configuration and dictionary the setters have installed. *)
(* op, ret, calls, split, rx and serial_tx record what the last operation  *)
(* did; every operation overwrites them.                                   *)
(***************************************************************************)
EXTENDS Integers, Sequences, FiniteSets, TLC

VARIABLES
  start_char,          \* Command::start_char
  stop_char,           \* Command::stop_char
  delimiter,           \* Command::delimiter
  command_dictionary,  \* Command::command_dictionary (the borrowed array)
  command_count,       \* Command::command_count
  line,                \* the text the host sends / the caller passes
  rx,                  \* what the last operation read from Serial
  serial_tx,           \* lines printed on Serial by the last operation
  op,                  \* the last operation performed
  ret,                 \* what the last operation returned
  calls,               \* handler invocations made by the last operation
  split,               \* the tokenizer call made by the last operation
  halted               \* the program crashed (undefined behaviour)

vars == <<start_char, stop_char, delimiter, command_dictionary, command_count,
          line, rx, serial_tx, op, ret, calls, split, halted>>

config == <<start_char, stop_char, delimiter>>
registry == <<command_dictionary, command_count>>

-----------------------------------------------------------------------------
(* Program constants *)

MAX_ARGS == 10

\* unsigned int is 16 bits wide on the AVR targets of the library
UINT_RANGE == 2^16

NUL == "NUL"

CMD_ERROR == {"ERR_NONE", "ERR_MISSING_START_CHAR", "ERR_MISSING_STOP_CHAR",
              "ERR_MISSING_DELIMITER", "ERR_INVALID_CMD", "ERR_NO_MATCHING_CMD",
              "ERR_TOO_FEW_ARGS", "ERR_TOO_MANY_ARGS", "ERR_NO_ARGS",
              "ERR_INVALID_ARG"}

-----------------------------------------------------------------------------
(* Bounds of the model *)

\* longest argument list sent by the host (one more than MAX_ARGS)
MaxTokens == 11
\* argument lists up to this length are enumerated over all of Tokens
MaxShort == 2
\* largest command_count registered
MaxDict == 2

-----------------------------------------------------------------------------
(* Arduino String operations *)

\* isspace() of the C library (the characters of it that the lines here use)
IsSpace(c) == c \in {" ", "\t", "\n", "\r", "\f"}

Unsigned(i) == i % UINT_RANGE

\* String::operator[] : out of range reads give '\0'
CharAt(s, index) == IF Unsigned(index) >= Len(s) THEN NUL ELSE s[Unsigned(index) + 1]

\* String::substring(left, right), both unsigned
Substring(s, left, right) ==
  LET l0 == Unsigned(left)
      r0 == Unsigned(right)
      l  == IF l0 > r0 THEN r0 ELSE l0
      r1 == IF l0 > r0 THEN l0 ELSE r0
      r  == IF r1 > Len(s) THEN Len(s) ELSE r1
  IN IF l >= Len(s) THEN <<>> ELSE SubSeq(s, l + 1, r)

\* String::substring(left)
SubstringFrom(s, left) == Substring(s, left, Len(s))

RECURSIVE TrimLeft(_)
TrimLeft(s) == IF s # <<>> /\ IsSpace(Head(s)) THEN TrimLeft(Tail(s)) ELSE s

RECURSIVE TrimRight(_)
TrimRight(s) ==
  IF s # <<>> /\ IsSpace(s[Len(s)]) THEN TrimRight(SubSeq(s, 1, Len(s) - 1)) ELSE s

\* String::trim()
Trim(s) == TrimRight(TrimLeft(s))

\* String::indexOf(char) : 0-based index of the first occurrence, or -1
IndexOf(s, c) ==
  IF \E i \in 1..Len(s) : s[i] = c
  THEN (CHOOSE i \in 1..Len(s) : s[i] = c /\ \A j \in 1..(i - 1) : s[j] # c) - 1
  ELSE -1

-----------------------------------------------------------------------------
(* The environment: handlers, dictionaries, lines *)

\* The handlers the application registers; each is a deterministic function
\* of its arguments.
callback(cb, args, arg_count) ==
  CASE cb = "cbNone"    -> "ERR_NONE"
    [] cb = "cbNoMatch" -> "ERR_NO_MATCHING_CMD"
    [] cb = "cbArity"   -> IF arg_count = 0 THEN "ERR_NO_ARGS"
                           ELSE IF arg_count = 1 THEN "ERR_NONE"
                           ELSE "ERR_TOO_MANY_ARGS"

\* Command::Command(cmd_name, callback)
Command(cmd_name, cb) == [cmd_name |-> cmd_name, callback |-> cb]

Help == <<"h", "e", "l", "p">>

\* The const Command arrays of the application
Libraries ==
  { << Command(<<"c">>, "cbNone"), Command(<<"c">>, "cbNoMatch"),
       Command(Help, "cbArity"), Command(<<"C">>, "cbArity") >>,
    << Command(Help, "cbNoMatch"), Command(<<"c">>, "cbArity"),
       Command(<<"C">>, "cbNone"), Command(<<"c">>, "cbNone") >> }

StartChars == {NUL, "<"}
StopChars  == {NUL, ">"}
Delimiters == {" ", ","}

RECURSIVE Join(_, _)
Join(ts, d) ==
  IF ts = <<>> THEN <<>>
  ELSE IF Len(ts) = 1 THEN ts[1]
  ELSE ts[1] \o <<d>> \o Join(Tail(ts), d)

Tokens == {<<"a">>, <<>>, <<"\t">>}

RECURSIVE SeqsUpTo(_, _)
SeqsUpTo(S, n) ==
  IF n = 0 THEN {<<>>}
  ELSE LET shorter == SeqsUpTo(S, n - 1)
       IN shorter \cup {Append(q, x) : q \in {r \in shorter : Len(r) = n - 1}, x \in S}

\* a, b, a, b, ... : k tokens
Alternating(k) == [i \in 1..k |-> IF i % 2 = 1 THEN <<"a">> ELSE <<"b">>]

\* argument lists with an empty or blank token in the middle, and with
\* blanks inside and around tokens
Samples == { << <<"a">>, <<>>, <<"b">> >>,
             << <<"a">>, <<"\t">>, <<"b">> >>,
             << <<"a", "\t">>, <<"\t", "b">> >>,
             << <<"\t", "a">>, <<"b", "\t">> >> }

TokenSeqs == SeqsUpTo(Tokens, MaxShort)
               \cup {Alternating(k) : k \in (MaxShort + 1)..MaxTokens}
               \cup Samples

\* what follows the command name: nothing, or a delimiter and an argument list
ArgParts == {<<>>} \cup {<<d>> \o Join(ts, d) : d \in Delimiters, ts \in TokenSeqs}

Pads == { <<<<>>, <<>>>>, <<<<" ">>, <<"\r", "\n">>>> }

Lines ==
  { pad[1] \o open \o name \o rest \o close \o pad[2] :
      pad \in Pads, open \in {<<>>, <<"<">>}, close \in {<<>>, <<">">>},
      name \in {<<"c">>, <<"C">>}, rest \in ArgParts }
  \cup
  { pad[1] \o open \o Help \o rest \o close \o pad[2] :
      pad \in Pads, open \in {<<>>, <<"<">>}, close \in {<<>>, <<">">>},
      rest \in {<<>>, <<" ", "a">>} }
  \cup
  { <<>>, <<" ">>, <<"\r", "\n">>, <<"<">>, <<">">>, <<"<", ">">>, <<"<", " ", ">">> }

-----------------------------------------------------------------------------
(* Command::splitArgString *)

RECURSIVE CountDelimiters(_)
CountDelimiters(s) ==
  IF s = <<>> THEN 0
  ELSE (IF Head(s) = delimiter THEN 1 ELSE 0) + CountDelimiters(Tail(s))

\* Mutant of SplitLoop: the rest of the string starts at the delimiter
\* instead of after it.
RECURSIVE SplitLoop_KeepsDelimiter(_, _, _, _)
SplitLoop_KeepsDelimiter(i, arg_str, delimiter_count, stored) ==
  IF i > delimiter_count THEN stored
  ELSE IF i < delimiter_count
       THEN LET delimiter_index == IndexOf(arg_str, delimiter)
            IN SplitLoop_KeepsDelimiter(i + 1, SubstringFrom(arg_str, delimiter_index),
                         delimiter_count,
                         Append(stored, Substring(arg_str, 0, delimiter_index)))
       ELSE SplitLoop_KeepsDelimiter(i + 1, arg_str, delimiter_count,
                                     Append(stored, arg_str))

\* The split loop: the sequence of values stored, the i-th of them at
\* arg_buff[i - 1].
RECURSIVE SplitLoop(_, _, _, _)
SplitLoop(i, arg_str, delimiter_count, stored) ==
  IF i > delimiter_count THEN stored
  ELSE IF i < delimiter_count
       THEN LET delimiter_index == IndexOf(arg_str, delimiter)
            IN SplitLoop(i + 1, SubstringFrom(arg_str, delimiter_index + 1),
                         delimiter_count,
                         Append(stored, Substring(arg_str, 0, delimiter_index)))
       ELSE SplitLoop(i + 1, arg_str, delimiter_count, Append(stored, arg_str))

NoSplit == [called |-> FALSE, arg_str |-> <<>>, error |-> "ERR_NONE",
            arg_count |-> 0, stored |-> <<>>]

\* The call splitArgString(args, arg_str, &arg_count): its result code, the
\* count it writes and the values it stores.  The stores at index MAX_ARGS
\* and above are outside the caller's args[MAX_ARGS].
splitArgString(arg_str0) ==
  LET arg_str == Trim(arg_str0)
  IN IF Len(arg_str) < 1
     THEN [called |-> TRUE, arg_str |-> arg_str0, error |-> "ERR_NO_ARGS",
           arg_count |-> 0, stored |-> <<>>]
     ELSE LET delimiter_count == CountDelimiters(arg_str)
          IN [called |-> TRUE, arg_str |-> arg_str0, error |-> "ERR_NONE",
              arg_count |-> delimiter_count + 1,
              stored |-> SplitLoop(0, arg_str, delimiter_count, <<>>)]

\* the stores that leave args[MAX_ARGS]
Overflows(sp) == Len(sp.stored) > MAX_ARGS

\* args[] as the handler can read it
InBounds(stored) == SubSeq(stored, 1, IF Len(stored) > MAX_ARGS THEN MAX_ARGS ELSE Len(stored))

-----------------------------------------------------------------------------
(* Command::process *)

\* Mutant of MissingStart: the first character is compared with the stop char.
MissingStart_ComparesStopChar(cmd_str) == CharAt(cmd_str, 0) # stop_char

\* cmd_str[0] != Command::start_char
MissingStart(cmd_str) == CharAt(cmd_str, 0) # start_char

\* cmd_str = cmd_str.substring(1)
RemoveStart(cmd_str) == SubstringFrom(cmd_str, 1)

\* cmd_str[cmd_str.length() - 1] != Command::stop_char
MissingStop(cmd_str) == CharAt(cmd_str, Len(cmd_str) - 1) # stop_char

\* cmd_str = cmd_str.substring(0, cmd_str.length() - 2)
RemoveStop(cmd_str) == Substring(cmd_str, 0, Len(cmd_str) - 2)

\* The framing checks: the error they return, or ERR_NONE and what is left
\* of the line.
Framing(cmd_str0) ==
  LET trimmed == Trim(cmd_str0)
  IN IF start_char # NUL /\ MissingStart(trimmed)
     THEN [error |-> "ERR_MISSING_START_CHAR", cmd_str |-> trimmed]
     ELSE LET s1 == IF start_char # NUL THEN RemoveStart(trimmed) ELSE trimmed
          IN IF stop_char # NUL /\ MissingStop(s1)
             THEN [error |-> "ERR_MISSING_STOP_CHAR", cmd_str |-> s1]
             ELSE [error |-> "ERR_NONE",
                   cmd_str |-> IF stop_char # NUL THEN RemoveStop(s1) ELSE s1]

\* cmd_name, from the line left by the framing checks
CmdName(cmd_str) ==
  LET end_of_command_name_index == IndexOf(cmd_str, delimiter)
  IN IF end_of_command_name_index = -1 THEN cmd_str
     ELSE Substring(cmd_str, 0, end_of_command_name_index)

\* arg_str, from the line left by the framing checks
ArgStr(cmd_str) ==
  LET end_of_command_name_index == IndexOf(cmd_str, delimiter)
  IN IF end_of_command_name_index = -1 THEN <<>>
     ELSE Trim(SubstringFrom(cmd_str, end_of_command_name_index + 1))

\* Mutant of SplitArgs: the tokenizer is called on an empty arg_str too.
SplitArgs_Unguarded(arg_str) == splitArgString(arg_str)

\* if(arg_str.length()) splitArgString(args, arg_str, &arg_count)
SplitArgs(arg_str) == IF Len(arg_str) > 0 THEN splitArgString(arg_str) ELSE NoSplit

\* The dictionary scan: the index of the entry whose callback is called, or
\* -1 when the loop ends without a match.
RECURSIVE Lookup(_, _)
Lookup(i, cmd_name) ==
  IF ~(i < command_count) THEN -1
  ELSE IF cmd_name = command_dictionary[i + 1].cmd_name THEN i
  ELSE Lookup(i + 1, cmd_name)

\* The scan and the call of the matching entry's callback
Dispatch(cmd_name, sp) ==
  LET i == Lookup(0, cmd_name)
      args == InBounds(sp.stored)
  IN IF i = -1
     THEN [ret |-> "ERR_NO_MATCHING_CMD", calls |-> <<>>, split |-> sp]
     ELSE [ret |-> callback(command_dictionary[i + 1].callback, args, sp.arg_count),
           calls |-> <<[index |-> i, args |-> args, arg_count |-> sp.arg_count]>>,
           split |-> sp]

\* What a build can do once splitArgString has stored past args[MAX_ARGS - 1]:
\* the store lands in dead stack memory and the call goes on; or args[MAX_ARGS]
\* is the neighbouring local cmd_name, which now holds that token; or the store
\* goes through a wild pointer and the program never returns.
UndefinedOutcomes == {"dead_store", "clobbers_cmd_name", "crash"}

Undefined(outcome, cmd_name, sp) ==
  CASE outcome = "dead_store"        -> Dispatch(cmd_name, sp)
    [] outcome = "clobbers_cmd_name" -> Dispatch(sp.stored[MAX_ARGS + 1], sp)
    [] outcome = "crash"             ->
         [ret |-> "no_return", calls |-> <<>>,
          split |-> [sp EXCEPT !.error = "no_return"]]

\* Command::process(cmd_str): the set of its possible outcomes, one unless
\* the behaviour is undefined.
process(cmd_str) ==
  LET framed == Framing(cmd_str)
  IN IF framed.error # "ERR_NONE"
     THEN {[ret |-> framed.error, calls |-> <<>>, split |-> NoSplit]}
     ELSE LET cmd_name == CmdName(framed.cmd_str)
              sp == SplitArgs(ArgStr(framed.cmd_str))
          IN IF sp.error # "ERR_NONE"
             THEN {[ret |-> sp.error, calls |-> <<>>, split |-> sp]}
             ELSE IF Overflows(sp)
             THEN {Undefined(o, cmd_name, sp) : o \in UndefinedOutcomes}
             ELSE {Dispatch(cmd_name, sp)}

-----------------------------------------------------------------------------
(* The state machine *)

Init ==
  /\ start_char = NUL
  /\ stop_char = NUL
  /\ delimiter = " "
  /\ command_dictionary = <<>>
  /\ command_count = 0
  /\ line \in Lines
  /\ rx = <<>>
  /\ serial_tx = <<>>
  /\ op = "init"
  /\ ret = "void"
  /\ calls = <<>>
  /\ split = NoSplit
  /\ halted = FALSE

\* an operation that returns nothing, calls no handler and prints nothing
Quiet(name) ==
  /\ op' = name
  /\ ret' = "void"
  /\ calls' = <<>>
  /\ split' = NoSplit
  /\ rx' = <<>>
  /\ serial_tx' = <<>>
  /\ UNCHANGED <<line, halted>>

setStartChar(c) ==
  /\ ~halted
  /\ start_char' = c
  /\ UNCHANGED <<stop_char, delimiter, command_dictionary, command_count>>
  /\ Quiet("setStartChar")

setStopChar(c) ==
  /\ ~halted
  /\ stop_char' = c
  /\ UNCHANGED <<start_char, delimiter, command_dictionary, command_count>>
  /\ Quiet("setStopChar")

setDelimiter(c) ==
  /\ ~halted
  /\ delimiter' = c
  /\ UNCHANGED <<start_char, stop_char, command_dictionary, command_count>>
  /\ Quiet("setDelimiter")

\* count is within the array the application passes
setCommandDictionary(dictionary, count) ==
  /\ ~halted
  /\ count <= Len(dictionary)
  /\ command_dictionary' = dictionary
  /\ command_count' = count
  /\ UNCHANGED <<start_char, stop_char, delimiter>>
  /\ Quiet("setCommandDictionary")

\* a call process(line) by the application
Process ==
  /\ ~halted
  /\ \E r \in process(line) :
       /\ op' = "process"
       /\ ret' = r.ret
       /\ calls' = r.calls
       /\ split' = r.split
       /\ halted' = (r.ret = "no_return")
  /\ rx' = <<>>
  /\ serial_tx' = <<>>
  /\ UNCHANGED <<start_char, stop_char, delimiter, command_dictionary,
                 command_count, line>>

HelpHeader == <<"C", "o", "m", "m", "a", "n", "d", " ",
                "d", "i", "c", "t", "i", "o", "n", "a", "r", "y", ":">>

\* the names printed by the help listing
RECURSIVE Listing(_)
Listing(i) ==
  IF ~(i < command_count) THEN <<>>
  ELSE <<command_dictionary[i + 1].cmd_name>> \o Listing(i + 1)

\* Mutant of ReadCommand: the text read is not trimmed.
ReadCommand_Untrimmed(text) == text

\* cmd_str = Serial.readString(); cmd_str.trim()
ReadCommand(text) == Trim(text)

\* Command::runHandler(); available: the host's line is waiting in Serial
runHandler(available) ==
  /\ ~halted
  /\ available => line # <<>>
  /\ op' = "runHandler"
  /\ rx' = IF available THEN line ELSE <<>>
  /\ IF available
     THEN LET cmd_str == ReadCommand(line)
          IN IF cmd_str = Help
             THEN /\ serial_tx' = <<<<>>, HelpHeader>> \o Listing(0)
                  /\ ret' = "ERR_NONE"
                  /\ calls' = <<>>
                  /\ split' = NoSplit
                  /\ halted' = FALSE
             ELSE /\ serial_tx' = <<<<>>, cmd_str>>
                  /\ \E r \in process(cmd_str) :
                       /\ ret' = r.ret
                       /\ calls' = r.calls
                       /\ split' = r.split
                       /\ halted' = (r.ret = "no_return")
     ELSE /\ serial_tx' = <<>>
          /\ ret' = "ERR_NONE"
          /\ calls' = <<>>
          /\ split' = NoSplit
          /\ halted' = FALSE
  /\ UNCHANGED <<start_char, stop_char, delimiter, command_dictionary,
                 command_count, line>>

Next ==
  \/ \E c \in StartChars : setStartChar(c)
  \/ \E c \in StopChars : setStopChar(c)
  \/ \E c \in Delimiters : setDelimiter(c)
  \/ \E dictionary \in Libraries : \E count \in 0..MaxDict :
       setCommandDictionary(dictionary, count)
  \/ Process
  \/ \E available \in BOOLEAN : runHandler(available)

Spec == Init /\ [][Next]_vars

-----------------------------------------------------------------------------
(* Vocabulary of the claims *)

\* the maximal delimiter-free pieces of s, in order
RECURSIVE Pieces(_, _)
Pieces(s, d) ==
  IF s = <<>> THEN << <<>> >>
  ELSE LET rest == Pieces(Tail(s), d)
       IN IF Head(s) = d THEN << <<>> >> \o rest
          ELSE << <<Head(s)>> \o rest[1] >> \o Tail(rest)

\* the registry entries named n
Matches(n) == {i \in 0..(command_count - 1) : command_dictionary[i + 1].cmd_name = n}

FirstMatch(n) == CHOOSE i \in Matches(n) : \A j \in Matches(n) : i <= j

\* what the handler of entry i returns for the call c
Returned(c) == callback(command_dictionary[c.index + 1].callback, c.args, c.arg_count)

NoLeadingSpace(s) == s # <<>> /\ ~IsSpace(s[1])
NoTrailingSpace(s) == s # <<>> /\ ~IsSpace(s[Len(s)])

IsError(r) == r \in CMD_ERROR \ {"ERR_NONE"}

\* the line as the framing checks of the last process call left it
Unframed == Framing(line).cmd_str
FramingPassed == Framing(line).error = "ERR_NONE"

-----------------------------------------------------------------------------
(* C1 *)

\* C1 (as claimed): with a start and a stop char configured, process on a
\* trimmed line S + body + E removes one leading and one trailing character
\* and so returns and calls what body alone gives.  Stated for bodies whose
\* arguments fit args[MAX_ARGS].
C1_StripsOneCharEachSide ==
  (op = "process" /\ start_char # NUL /\ stop_char # NUL) =>
    LET t == Trim(line)
    IN (Len(t) >= 2 /\ t[1] = start_char /\ t[Len(t)] = stop_char) =>
         LET body == SubSeq(t, 2, Len(t) - 1)
             sp == SplitArgs(ArgStr(body))
             expected == Dispatch(CmdName(body), sp)
         IN ~Overflows(sp) => (ret = expected.ret /\ calls = expected.calls)

-----------------------------------------------------------------------------
(* C2 *)

\* C2 (as claimed): process never stores an argument at index MAX_ARGS or
\* above and never calls a handler with a count above MAX_ARGS; a line with
\* more than MAX_ARGS argument tokens gets an error return.
C2_ArgsWithinCapacity ==
  (op = "process") =>
    /\ Len(split.stored) <= MAX_ARGS
    /\ \A k \in DOMAIN calls : calls[k].arg_count <= MAX_ARGS
    /\ (split.arg_count > MAX_ARGS => (IsError(ret) /\ calls = <<>>))

-----------------------------------------------------------------------------
(* C3 *)

\* C3 (as claimed): with no framing chars, process on n d t1 d ... d tk, for a
\* registered name n and k <= MAX_ARGS non-empty delimiter-free tokens, calls
\* the handler registered under n with exactly <<t1, ..., tk>> and count k.
C3_DispatchesEveryTokenList ==
  (op = "process" /\ start_char = NUL /\ stop_char = NUL) =>
    LET ps == Pieces(line, delimiter)
        n  == ps[1]
        ts == Tail(ps)
    IN (Matches(n) # {} /\ Len(ts) <= MAX_ARGS /\ \A k \in DOMAIN ts : ts[k] # <<>>) =>
         calls = << [index |-> FirstMatch(n), args |-> ts, arg_count |-> Len(ts)] >>

\* C3 (amended): the same, for a name n that is non-empty and has no leading
\* or trailing whitespace, and tokens of which the first has no leading and
\* the last no trailing whitespace; the handler is that of the first entry
\* named n.
C3_DispatchesTrimmedTokenList ==
  (op = "process" /\ start_char = NUL /\ stop_char = NUL) =>
    LET ps == Pieces(line, delimiter)
        n  == ps[1]
        ts == Tail(ps)
    IN (/\ Matches(n) # {}
        /\ NoLeadingSpace(n) /\ NoTrailingSpace(n)
        /\ Len(ts) <= MAX_ARGS
        /\ \A k \in DOMAIN ts : ts[k] # <<>>
        /\ ts # <<>> => (NoLeadingSpace(ts[1]) /\ NoTrailingSpace(ts[Len(ts)]))) =>
         calls = << [index |-> FirstMatch(n), args |-> ts, arg_count |-> Len(ts)] >>

\* a full argument list: MAX_ARGS tokens dispatched
C3_Witness ==
  /\ op = "process" /\ start_char = NUL /\ stop_char = NUL
  /\ Len(Pieces(line, delimiter)) = MAX_ARGS + 1
  /\ Matches(Pieces(line, delimiter)[1]) # {}
  /\ Len(calls) = 1
  /\ calls[1].arg_count = MAX_ARGS
  /\ calls[1].args = Tail(Pieces(line, delimiter))

-----------------------------------------------------------------------------
(* C4 *)

\* C4 (as claimed): a process call invokes at most one handler; when the
\* parsed command name is registered, it invokes the first entry of that name
\* exactly once and returns what that handler returned.
C4_FirstMatchCalledOnce ==
  (op = "process") =>
    /\ Len(calls) <= 1
    /\ (FramingPassed /\ Matches(CmdName(Unframed)) # {}) =>
         /\ Len(calls) = 1
         /\ calls[1].index = FirstMatch(CmdName(Unframed))
         /\ ret = Returned(calls[1])

-----------------------------------------------------------------------------
(* C5 *)

\* C5 (as claimed): when the framing checks pass and no entry has exactly the
\* parsed command name, process returns NoMatchingCommand and calls no handler.
C5_NoMatchingCommand ==
  (op = "process" /\ FramingPassed /\ Matches(CmdName(Unframed)) = {}) =>
    (ret = "ERR_NO_MATCHING_CMD" /\ calls = <<>>)

-----------------------------------------------------------------------------
(* C6 *)

\* the trimmed line without its first character when a start char is set
AfterStart == IF start_char # NUL THEN Tail(Trim(line)) ELSE Trim(line)

StartAbsent == start_char # NUL /\ (Trim(line) = <<>> \/ Trim(line)[1] # start_char)

StopAbsent ==
  stop_char # NUL /\ (AfterStart = <<>> \/ AfterStart[Len(AfterStart)] # stop_char)

\* C6: a missing start char gives MissingStartChar; otherwise a missing stop
\* char (on the line after the start char is removed) gives MissingStopChar;
\* either way before any tokenizing and with no handler called.
C6_FramingErrorsFirst ==
  (op = "process") =>
    /\ StartAbsent => (ret = "ERR_MISSING_START_CHAR" /\ calls = <<>> /\ ~split.called)
    /\ (~StartAbsent /\ StopAbsent) =>
         (ret = "ERR_MISSING_STOP_CHAR" /\ calls = <<>> /\ ~split.called)

\* the line is the start char alone: nothing is left for the stop check
C6_Witness ==
  /\ op = "process" /\ start_char # NUL /\ stop_char # NUL
  /\ Trim(line) = <<start_char>>
  /\ command_count > 0
  /\ ret = "ERR_MISSING_STOP_CHAR"

-----------------------------------------------------------------------------
(* C7 *)

\* C7: runHandler on an available line whose trimmed text is "help" returns
\* None, calls no handler, does no tokenizing, and prints (after the blank
\* line and the heading) each registered name once, in registration order,
\* whatever the framing chars and the dictionary are.
C7_HelpBypassesProcess ==
  (op = "runHandler" /\ rx # <<>> /\ Trim(rx) = Help) =>
    /\ ret = "ERR_NONE"
    /\ calls = <<>>
    /\ ~split.called
    /\ Len(serial_tx) = 2 + command_count
    /\ serial_tx[1] = <<>> /\ serial_tx[2] = HelpHeader
    /\ \A i \in 1..command_count : serial_tx[2 + i] = command_dictionary[i].cmd_name

\* help arrives padded, "help" is itself registered and a start char is set
C7_Witness ==
  /\ op = "runHandler" /\ rx # Help /\ Trim(rx) = Help
  /\ start_char # NUL
  /\ command_count >= 2
  /\ Matches(Help) # {}
  /\ Len(serial_tx) = 2 + command_count

-----------------------------------------------------------------------------
(* C8 *)

\* C8 (as claimed): process changes neither the configuration nor the
\* registry, setCommandDictionary calls no handler, and a process call that
\* follows a process call on the same line returns the same result and makes
\* the same handler call.
C8_ProcessRepeatable ==
  [][ /\ (op' = "process") => (config' = config /\ registry' = registry)
      /\ (op' = "setCommandDictionary") => (calls' = <<>>)
      /\ (op = "process" /\ op' = "process" /\ line' = line) =>
           (ret' = ret /\ calls' = calls) ]_vars

-----------------------------------------------------------------------------
(* C9 *)

\* C9 (as claimed): the tokenizer, on a string that is non-empty after
\* trimming and holds d delimiters, returns None and count d + 1, and the
\* d + 1 tokens it returns hold no delimiter and, joined with the delimiter,
\* give back the trimmed string.
C9_TokenizerSplitsOnEveryDelimiter ==
  (split.called /\ Trim(split.arg_str) # <<>>) =>
    LET d == Cardinality({i \in 1..Len(Trim(split.arg_str)) :
                            Trim(split.arg_str)[i] = delimiter})
        tokens == InBounds(split.stored)
    IN /\ split.error = "ERR_NONE"
       /\ split.arg_count = d + 1
       /\ Len(tokens) = d + 1
       /\ \A k \in DOMAIN tokens : \A i \in DOMAIN tokens[k] : tokens[k][i] # delimiter
       /\ tokens = Pieces(Trim(split.arg_str), delimiter)

-----------------------------------------------------------------------------
(* C10 *)

\* the framing checks pass and the command name is followed by a delimiter
\* with nothing but whitespace after it
NameThenBlank ==
  /\ FramingPassed
  /\ IndexOf(Unframed, delimiter) # -1
  /\ Trim(SubstringFrom(Unframed, IndexOf(Unframed, delimiter) + 1)) = <<>>

\* C10 (as claimed): on such a line process returns NoArgs and calls no handler.
C10_BlankArgsGiveNoArgs ==
  (op = "process" /\ NameThenBlank) => (ret = "ERR_NO_ARGS" /\ calls = <<>>)

\* C10 (amended): on such a line process does not call the tokenizer and
\* dispatches with no arguments: it calls the first entry of that name with
\* count 0 and returns its result, or returns NoMatchingCommand when there is
\* none.
C10_BlankArgsDispatchWithNone ==
  (op = "process" /\ NameThenBlank) =>
    LET n == CmdName(Unframed)
    IN /\ ~split.called
       /\ Matches(n) = {} => (ret = "ERR_NO_MATCHING_CMD" /\ calls = <<>>)
       /\ Matches(n) # {} =>
            /\ calls = << [index |-> FirstMatch(n), args |-> <<>>, arg_count |-> 0] >>
            /\ ret = Returned(calls[1])

C10_Witness ==
  /\ op = "process" /\ NameThenBlank
  /\ Len(calls) = 1
  /\ calls[1].arg_count = 0
  /\ ret = "ERR_NONE"

====
